---------------------------- MODULE Spec2Model ----------------------------
(***************************************************************************)
(* A model of the L4 load balancer: the backend registry and its health    *)
(* flags (internal/backend, internal/health), the round-robin selection    *)
(* algorithm (internal/balancer/algorithms.go), the dispatcher              *)
(* (internal/balancer/balancer.go) and the backend connection pool         *)
(* (pkg/pool/pool.go).                                                     *)
(*                                                                         *)
(* The subsystems share no state in the code (the dispatcher never calls   *)
(* the algorithm or the pool), so each has its own specification:          *)
(*   Spec         registry + health flags + sequential round-robin calls   *)
(*   ConcSpec     concurrent callers of one RoundRobinAlgorithm            *)
(*   DispatchSpec LoadBalancer.Start / handleConnection                    *)
(*   PoolSpec     ConnectionPool under concurrent Get / Put                *)
(* A specification leaves the variables of the other subsystems at their   *)
(* initial values.                                                         *)
(***************************************************************************)
EXTENDS Integers, Sequences, FiniteSets, TLC

\* ------------------------------------------------------------------ bounds
\* Number of AddServer calls (configured backends).
MaxServers == 3
\* Number of SelectBackend calls on one candidate list (the window M).
MaxCalls == 6
\* Largest value the round-robin counter takes in the sequential model.  The
\* counter is a uint64; its wrap at 2^64 lies beyond every bounded run.
MaxCounter == 8
\* Concurrent callers of one RoundRobinAlgorithm, and the calls they make in all.
NumCallers == 2
MaxConcCalls == 4
\* Client connections accepted by the dispatcher.
MaxClients == 6
\* Connection pool: concurrent callers, largest maxSize, dials in a run, and
\* bytes a backend has sent that nobody has read yet.
\* Ports a configuration names for its backends.
MaxPorts == 2
\* Servers registered with the health checker.
MaxProbed == 2
\* Check intervals and health-check timeouts NewChecker is given, in seconds.
MaxInterval == 2
MaxTimeout == 1
NumPoolCallers == 2
MaxPoolSize == 2
MaxDials == 3
MaxPending == 1

VARIABLES
    \* backend.Manager
    servers,      \* Manager.servers: sequence of Server records
    \* the candidate list a caller hands to SelectBackend, and how it was built
    backends,     \* []balancer.Backend
    snapshot,     \* the registry (servers) as it was when backends was built
    \* balancer.RoundRobinAlgorithm
    counter,      \* RoundRobinAlgorithm.counter
    calls,        \* the SelectBackend calls made on the current candidate list
    \* concurrent callers of SelectBackend (goroutines of the tests)
    rrpc,         \* where each caller is inside SelectBackend
    rrlocal,      \* each caller's locals: healthy, index
    observed,     \* the values atomic.AddUint64 returned, in the order of the adds
    selections,   \* address -> number of calls that returned it
    started,      \* number of calls begun
    \* balancer.LoadBalancer
    lbState,      \* "none" (not constructed), "new", "listening" (in the accept loop)
                  \* or "failed" (Start returned err)
    lbBackends,   \* LoadBalancer.backends
    clients,      \* the accepted client connections, in accept order
    listener,     \* Start's listening socket: "none", "open" or "closed"
    acceptErr,    \* the latest error of listener.Accept: "none", "transient", "closed"
    \* pool.ConnectionPool and its environment
    maxSize,      \* ConnectionPool.maxSize
    connections,  \* ConnectionPool.connections: the buffered channel's content
    active,       \* ConnectionPool.active
    conn,         \* every dialed net.Conn: state, peer, bytes pending from the peer
    dials,        \* number of successful dials
    reachable,    \* whether the backend accepts connections
    held,         \* caller -> the connections it got from Get and has not returned
    ppc,          \* where each caller is inside Get / Put
    plocal,       \* the connection a caller's Get or Put is working on (0: none)
    result,       \* what each caller's last Get returned
    tag,          \* the situation each caller's current Get started in
    chClosed,     \* whether close(p.connections) has been executed
    cpc,          \* where the caller of ConnectionPool.Close is
    \* health.Checker, its ticker and the backends it probes
    interval,     \* Checker.interval
    timeout,      \* Checker.timeout
    stopCh,       \* Checker.stopCh: "open" or "closed"
    hpc,          \* where Checker.Start is
    hidx,         \* checkAll: index of the server being checked
    hsnap,        \* checkAll: length of the slice GetAllServers returned
    probeLeft,    \* time until the dial of the probe in flight returns
    probeOk,      \* what that dial will return
    tickLeft,     \* time until the ticker fires next
    tickPending,  \* a tick is waiting in ticker.C
    backendState, \* each backend: "up", "refused" or "hung"
    age,          \* how long a backend has been down (capped)
    lastProbe,    \* each server's latest completed probe: "none", "ok", "fail"
    stopAt,       \* where Start was when Stop was called
    \* unsynchronized users of the registry (goroutines)
    rdpc,         \* reader in GetHealthyServers: "idle", "header", "flag"
    rdidx,        \* reader: index in its range loop
    rdview,       \* reader: the m.servers it is ranging over (its length)
    rdout,        \* reader: the healthy servers collected
    wrpc,         \* checker in checkServer: "idle", "flag"
    wridx,        \* checker: the server it is writing
    wrval,        \* checker: the value it is writing
    adpc,         \* AddServer: "idle", "append"
    \* a caller of the registry and of the algorithms
    regCall,      \* its latest call: which, the registry then, what it returned
    \* the process log
    logged        \* what the checkServer call under way or last made printed

selVars == <<servers, backends, snapshot, counter, calls>>

concVars == <<rrpc, rrlocal, observed, selections, started>>

lbVars == <<lbState, lbBackends, clients, listener, acceptErr>>

poolVars == <<maxSize, connections, active, conn, dials, reachable, held, ppc, plocal, result, tag>>

closeVars == <<chClosed, cpc>>

healthVars == <<interval, timeout, stopCh, hpc, hidx, hsnap, probeLeft, probeOk,
                tickLeft, tickPending, backendState, age, lastProbe, stopAt>>

regVars == <<regCall, logged>>

raceVars == <<rdpc, rdidx, rdview, rdout, wrpc, wridx, wrval, adpc>>

vars == <<selVars, concVars, lbVars, poolVars, closeVars, healthVars, raceVars, regVars>>

\* ---------------------------------------------------------------- registry
\* A nil pointer is the empty sequence, a non-nil pointer <<value>>.
Nil == <<>>

Ref(v) == <<v>>

\* Server.GetAddress: fmt.Sprintf("%s:%d", s.Address, s.Port)
GetAddress(s) == <<s.Address, s.Port>>

\* NewManager: an empty registry.
NewManager == <<>>

\* Faulty variant: a failed probe does not clear the flag.
CheckServerFlagSticky(s, isReachable) == [s EXCEPT !.Healthy = @ \/ isReachable]

\* The Server value AddServer builds: Healthy starts false.
NewServer(address, port) == [Address |-> address, Port |-> port, Healthy |-> FALSE]

\* Faulty variant: the new server is put in front.
AddServerToFront(srvs, address, port) == <<NewServer(address, port)>> \o srvs

\* Manager.AddServer: append, no check for an existing identity.
AddServerTo(srvs, address, port) == Append(srvs, NewServer(address, port))

\* Manager.GetAllServers: the registry slice itself.
GetAllServers(srvs) == srvs

\* Faulty variant: every server counts as healthy.
IsRegisteredServer(s) == TRUE

IsHealthyServer(s) == s.Healthy

\* Manager.GetHealthyServers: the servers with Healthy set, in registry order.
GetHealthyServers(srvs) == SelectSeq(srvs, IsHealthyServer)

\* Checker.checkServer: the flag becomes the outcome of the probe.
CheckServerFlag(s, isReachable) == [s EXCEPT !.Healthy = isReachable]

\* Nothing printed.
NoEvent == <<>>

\* Faulty variant: the outcome of every probe is printed.
CheckServerEventAlways(s, isReachable) ==
    IF isReachable THEN <<"now healthy", GetAddress(s)>>
    ELSE <<"now unhealthy", GetAddress(s)>>

\* checkServer, what it prints: "Server %s is now healthy" when the probe
\* succeeded and Healthy was false, "Server %s is now unhealthy" when it
\* failed and Healthy was true.
CheckServerEvent(s, isReachable) ==
    IF isReachable
    THEN IF ~s.Healthy THEN <<"now healthy", GetAddress(s)>> ELSE NoEvent
    ELSE IF s.Healthy THEN <<"now unhealthy", GetAddress(s)>> ELSE NoEvent

\* The conversion the callers of the algorithm make from a registry view to
\* the algorithm's []Backend: a copy of address and flag.
ToBackends(view) ==
    [i \in 1..Len(view) |-> [Address |-> GetAddress(view[i]), Healthy |-> view[i].Healthy]]

\* ------------------------------------------------------------- round robin
IsHealthy(b) == b.Healthy

\* Faulty variant: the counter is read but never advanced.
AddNothing(c, delta) == c

\* atomic.AddUint64(&rr.counter, delta): the new value.
AtomicAddUint64(c, delta) == c + delta

\* Faulty variant: no health filter, the index is taken in the input list.
SelectBackendNoFilter(bs, c) ==
    IF Len(bs) = 0
    THEN [backend |-> Nil, counter |-> c]
    ELSE LET n == AtomicAddUint64(c, 1)
             index == n % Len(bs)
         IN [backend |-> Ref(bs[index + 1]), counter |-> n]

\* Faulty variant: the index is taken from the counter before the increment.
SelectBackendPostIncrement(bs, c) ==
    IF Len(bs) = 0
    THEN [backend |-> Nil, counter |-> c]
    ELSE LET healthy == SelectSeq(bs, IsHealthy)
         IN IF Len(healthy) = 0
            THEN [backend |-> Nil, counter |-> c]
            ELSE LET n == AtomicAddUint64(c, 1)
                     index == c % Len(healthy)
                 IN [backend |-> Ref(healthy[index + 1]), counter |-> n]

\* Faulty variant: with no healthy candidate the unfiltered list is used.
SelectBackendFallback(bs, c) ==
    IF Len(bs) = 0
    THEN [backend |-> Nil, counter |-> c]
    ELSE LET filtered == SelectSeq(bs, IsHealthy)
             healthy == IF Len(filtered) = 0 THEN bs ELSE filtered
             n == AtomicAddUint64(c, 1)
             index == n % Len(healthy)
         IN [backend |-> Ref(healthy[index + 1]), counter |-> n]

\* RoundRobinAlgorithm.SelectBackend(backends) on counter value c:
\* the returned pointer and the counter afterwards.
SelectBackend(bs, c) ==
    IF Len(bs) = 0
    THEN [backend |-> Nil, counter |-> c]
    ELSE LET healthy == SelectSeq(bs, IsHealthy)
         IN IF Len(healthy) = 0
            THEN [backend |-> Nil, counter |-> c]
            ELSE LET n == AtomicAddUint64(c, 1)
                     index == n % Len(healthy)
                 IN [backend |-> Ref(healthy[index + 1]), counter |-> n]

\* LeastConnectionsAlgorithm.SelectBackend: not implemented, returns nil.
LeastConnectionsSelectBackend(bs) == Nil

\* ----------------------------------------------------- Spec: initial state
SelInit ==
    /\ servers = NewManager
    /\ backends = <<>>
    /\ snapshot = <<>>
    /\ counter = 0
    /\ calls = <<>>

\* ------------------------------------------------------------ Spec: actions
\* Configuration load: the i-th configured backend is registered.
AddServer ==
    /\ Len(servers) < MaxServers
    /\ servers' = AddServerTo(servers, "localhost", Len(servers) + 1)
    /\ UNCHANGED <<backends, snapshot, counter, calls>>

\* One iteration of Checker.checkAll: checkServer on a registered server,
\* the probe (Server.IsReachable) succeeding or failing.
CheckServer ==
    /\ \E i \in 1..Len(servers), isReachable \in BOOLEAN :
          /\ logged' = CheckServerEvent(servers[i], isReachable)
          /\ servers' = [servers EXCEPT ![i] = CheckServerFlag(servers[i], isReachable)]
    /\ UNCHANGED <<backends, snapshot, counter, calls>>

\* A caller builds the candidate list from every registered server.
BuildBackends ==
    /\ backends' = ToBackends(GetAllServers(servers))
    /\ snapshot' = servers
    /\ calls' = <<>>
    /\ UNCHANGED <<servers, counter>>

\* A caller builds the candidate list from the healthy servers only.
BuildHealthyBackends ==
    /\ backends' = ToBackends(GetHealthyServers(servers))
    /\ snapshot' = servers
    /\ calls' = <<>>
    /\ UNCHANGED <<servers, counter>>

\* One sequential call rr.SelectBackend(backends).
Select ==
    /\ Len(calls) < MaxCalls
    /\ counter < MaxCounter
    /\ LET r == SelectBackend(backends, counter)
       IN /\ counter' = r.counter
          /\ calls' = Append(calls, [before |-> counter, after |-> r.counter,
                                     backend |-> r.backend])
    /\ UNCHANGED <<servers, backends, snapshot>>

SelNext ==
    \/ AddServer
    \/ CheckServer
    \/ BuildBackends
    \/ BuildHealthyBackends
    \/ Select

\* ------------------------------------------- candidate lists given as input
RECURSIVE FlagLists(_)
\* Every assignment of health flags to the first k configured backends.
FlagLists(k) ==
    IF k = 0 THEN {<<>>}
    ELSE {Append(l, b) : l \in FlagLists(k - 1), b \in BOOLEAN}

\* The registry after k AddServer calls and health checks with outcomes fl.
RegistryWith(fl) ==
    [i \in 1..Len(fl) |-> CheckServerFlag(NewServer("localhost", i), fl[i])]

\* The candidate lists a caller can hand over: up to MaxServers backends,
\* any mix of flags.
CandidateLists ==
    {ToBackends(RegistryWith(fl)) : fl \in UNION {FlagLists(k) : k \in 0..MaxServers}}

\* ----------------------------------------- ConcSpec: concurrent selection
Callers == 1..NumCallers

NoLocals == [healthy |-> <<>>, index |-> 0]

ConcIdle ==
    /\ rrpc = [t \in Callers |-> "idle"]
    /\ rrlocal = [t \in Callers |-> NoLocals]
    /\ observed = <<>>
    /\ selections = <<>>
    /\ started = 0

\* A new RoundRobinAlgorithm, a fixed candidate list, no call begun.
ConcInit ==
    /\ servers = NewManager
    /\ snapshot = <<>>
    /\ calls = <<>>
    /\ counter = 0
    /\ backends \in CandidateLists
    /\ rrpc = [t \in Callers |-> "idle"]
    /\ rrlocal = [t \in Callers |-> NoLocals]
    /\ observed = <<>>
    /\ selections = [a \in {backends[i].Address : i \in 1..Len(backends)} |-> 0]
    /\ started = 0

\* Caller t enters SelectBackend: the length check and the health filter,
\* on the caller's own copy; nil is returned when nothing is healthy.
Enter(t) ==
    /\ rrpc[t] = "idle"
    /\ started < MaxConcCalls
    /\ started' = started + 1
    /\ LET healthy == SelectSeq(backends, IsHealthy)
       IN IF Len(backends) = 0 \/ Len(healthy) = 0
          THEN UNCHANGED <<rrpc, rrlocal>>
          ELSE /\ rrpc' = [rrpc EXCEPT ![t] = "add"]
               /\ rrlocal' = [rrlocal EXCEPT ![t] = [healthy |-> healthy, index |-> 0]]
    /\ UNCHANGED <<servers, backends, snapshot, counter, calls, observed, selections>>

\* Faulty variant: a read-modify-write of the counter that is not atomic, the
\* read and the write being two steps.
RacyAdd(t) ==
    \/ /\ rrpc[t] = "add"
       /\ rrpc' = [rrpc EXCEPT ![t] = "write"]
       /\ rrlocal' = [rrlocal EXCEPT ![t].index = counter]
       /\ UNCHANGED <<servers, backends, snapshot, counter, calls, observed, selections, started>>
    \/ /\ rrpc[t] = "write"
       /\ counter' = rrlocal[t].index + 1
       /\ observed' = Append(observed, rrlocal[t].index + 1)
       /\ rrlocal' = [rrlocal EXCEPT ![t].index = (rrlocal[t].index + 1) % Len(rrlocal[t].healthy)]
       /\ rrpc' = [rrpc EXCEPT ![t] = "return"]
       /\ UNCHANGED <<servers, backends, snapshot, calls, selections, started>>

\* Caller t executes index := atomic.AddUint64(&rr.counter, 1) % len(healthy):
\* one indivisible step on the shared counter.
AtomicAdd(t) ==
    /\ rrpc[t] = "add"
    /\ LET n == AtomicAddUint64(counter, 1)
       IN /\ counter' = n
          /\ observed' = Append(observed, n)
          /\ rrlocal' = [rrlocal EXCEPT ![t].index = n % Len(rrlocal[t].healthy)]
    /\ rrpc' = [rrpc EXCEPT ![t] = "return"]
    /\ UNCHANGED <<servers, backends, snapshot, calls, selections, started>>

\* Caller t returns &healthy[index]; the test counts the returned address.
Return(t) ==
    /\ rrpc[t] = "return"
    /\ LET b == rrlocal[t].healthy[rrlocal[t].index + 1]
       IN selections' = [selections EXCEPT ![b.Address] = @ + 1]
    /\ rrpc' = [rrpc EXCEPT ![t] = "idle"]
    /\ rrlocal' = [rrlocal EXCEPT ![t] = NoLocals]
    /\ UNCHANGED <<servers, backends, snapshot, counter, calls, observed, started>>

ConcNext ==
    \/ \E t \in Callers : Enter(t)
    \/ \E t \in Callers : AtomicAdd(t)
    \/ \E t \in Callers : Return(t)

\* ----------------------------------------------- round robin: the claims
\* The healthy candidates of the current list, in input order.
HealthyOf(bs) == SelectSeq(bs, IsHealthy)

\* The position (from 0) of a returned backend in the healthy-filtered list,
\* found by address as the unit test does; -1 for nil.
HealthyIndex(bs, ptr) ==
    IF ptr = Nil THEN -1
    ELSE LET h == HealthyOf(bs)
             js == {j \in 1..Len(h) : h[j].Address = ptr[1].Address}
         IN IF js = {} THEN -2 ELSE (CHOOSE j \in js : \A k \in js : j <= k) - 1

\* How many calls of the current window returned the backend at address a.
TimesSelected(a) ==
    Cardinality({k \in 1..Len(calls) : calls[k].backend # Nil /\ calls[k].backend[1].Address = a})

\* C1: SelectBackend never returns a backend whose Healthy flag is false: a
\* non-nil result carries the address of a candidate that is healthy in the
\* call's input, and a server that was unhealthy in the registry when the
\* candidate list was built is never selected from that list.
C1_NeverSelectsUnhealthy ==
    \A k \in 1..Len(calls) :
        calls[k].backend # Nil =>
            /\ calls[k].backend[1].Healthy
            /\ \E i \in 1..Len(backends) :
                  /\ backends[i].Address = calls[k].backend[1].Address
                  /\ backends[i].Healthy
            /\ \A j \in 1..Len(snapshot) :
                  ~snapshot[j].Healthy => GetAddress(snapshot[j]) # calls[k].backend[1].Address

\* C1 witness: selections were made from a list, built from the registry,
\* that mixes healthy and unhealthy entries.
C1_Witness ==
    /\ Len(calls) >= 3
    /\ \A k \in 1..Len(calls) : calls[k].backend # Nil
    /\ \E i, j \in 1..Len(backends) : backends[i].Healthy /\ ~backends[j].Healthy
    /\ \E j \in 1..Len(snapshot) : ~snapshot[j].Healthy

\* The healthy indices the unit test expects from a new instance.
ExpectedThreeHealthy == <<1, 2, 0, 1, 2, 0>>

ExpectedTwoHealthy == <<1, 0, 1, 0>>

\* C2: a call that finds n >= 1 healthy candidates increments the counter once
\* and returns the element at index (c mod n) of the healthy-filtered list,
\* c being the counter after the increment; a call that returns nil leaves
\* the counter alone; so a new instance returns healthy indices 1,2,0,1,2,0
\* over three healthy backends and 1,0,1,0 over two.
C2_IndexIsCounterModHealthy ==
    LET h == HealthyOf(backends)
        n == Len(h)
    IN \A k \in 1..Len(calls) :
          /\ n >= 1 =>
                /\ calls[k].after = calls[k].before + 1
                /\ calls[k].backend = Ref(h[(calls[k].after % n) + 1])
          /\ calls[k].backend = Nil => calls[k].after = calls[k].before
          /\ (calls[1].before = 0 /\ n >= 1) => calls[1].after = 1
          /\ (calls[1].before = 0 /\ n = 3 /\ k <= Len(ExpectedThreeHealthy)) =>
                HealthyIndex(backends, calls[k].backend) = ExpectedThreeHealthy[k]
          /\ (calls[1].before = 0 /\ n = 2 /\ k <= Len(ExpectedTwoHealthy)) =>
                HealthyIndex(backends, calls[k].backend) = ExpectedTwoHealthy[k]

\* C2 witness: six calls of a new instance over three healthy backends.
C2_Witness ==
    /\ Len(calls) = 6
    /\ calls[1].before = 0
    /\ Len(HealthyOf(backends)) = 3
    /\ [k \in 1..6 |-> HealthyIndex(backends, calls[k].backend)] = ExpectedThreeHealthy

\* C3: over a fixed list with N >= 1 healthy backends, after M >= N calls
\* every healthy backend was selected at least floor(M/N) and at most
\* ceil(M/N) times.
C3_FairShare ==
    LET h == HealthyOf(backends)
        N == Len(h)
        M == Len(calls)
    IN (N >= 1 /\ M >= N) =>
          \A j \in 1..N :
              /\ TimesSelected(h[j].Address) >= M \div N
              /\ TimesSelected(h[j].Address) <= (M + N - 1) \div N

\* C3 witness: a window that started at a non-zero counter, three healthy
\* backends, M not a multiple of N.
C3_Witness ==
    /\ Len(HealthyOf(backends)) = 3
    /\ Len(calls) = 5
    /\ calls[1].before > 0
    /\ \E j \in 1..3 : TimesSelected(HealthyOf(backends)[j].Address) = 1

\* C4: on an empty or all-unhealthy candidate list every call returns nil,
\* whatever happened before (the operator is total: no input makes it fail).
C4_NilWhenNoHealthy ==
    (Len(backends) = 0 \/ \A i \in 1..Len(backends) : ~backends[i].Healthy) =>
        \A k \in 1..Len(calls) : calls[k].backend = Nil /\ calls[k].after = calls[k].before

\* C4 witness: repeated calls on a non-empty all-unhealthy list, after
\* earlier successful selections had advanced the counter.
C4_Witness ==
    /\ Len(calls) >= 2
    /\ counter > 0
    /\ Len(backends) >= 2
    /\ \A i \in 1..Len(backends) : ~backends[i].Healthy

\* C4 second case reached too: the empty list, after earlier selections.
C4_EmptyCase ==
    Len(calls) >= 2 /\ counter > 0 /\ Len(backends) = 0

\* ------------------------------------------ concurrent selection: the claim
RECURSIVE SequentialRun(_, _, _)
\* The pointers m sequential SelectBackend calls return, starting at counter c.
SequentialRun(bs, c, m) ==
    IF m = 0 THEN <<>>
    ELSE LET r == SelectBackend(bs, c)
         IN <<r.backend>> \o SequentialRun(bs, r.counter, m - 1)

\* How many of m sequential calls on a new instance return address a.
SequentialCount(bs, m, a) ==
    LET run == SequentialRun(bs, 0, m)
    IN Cardinality({k \in 1..m : run[k] # Nil /\ run[k][1].Address = a})

AllReturned == \A t \in Callers : rrpc[t] = "idle"

\* C5: under every interleaving of the concurrent callers no two calls observe
\* the same counter value and none is skipped, and once the M calls have
\* returned each backend was selected as often as by M sequential calls.
C5_ConcurrentSameAsSequential ==
    /\ \A i, j \in 1..Len(observed) : i # j => observed[i] # observed[j]
    /\ {observed[i] : i \in 1..Len(observed)} = 1..Len(observed)
    /\ AllReturned =>
          \A a \in DOMAIN selections :
              selections[a] = SequentialCount(backends, started, a)

\* C5 witness: all the calls of the bounded run were made over three healthy
\* backends and have returned.
C5_Witness ==
    /\ AllReturned
    /\ started = 4
    /\ Len(observed) = 4
    /\ Len(HealthyOf(backends)) = 3

\* C5, the overlap: two callers are inside SelectBackend at once, both past
\* the add.
C5_Overlap ==
    \E t, u \in Callers : t # u /\ rrpc[t] = "return" /\ rrpc[u] = "return"

\* --------------------------------------------------------------- dispatcher
\* NewLoadBalancer(listenAddr, backends, algorithm): nothing runs yet.  The
\* algorithm is a new RoundRobinAlgorithm (counter).
LBInit ==
    /\ lbState = "new"
    /\ lbBackends \in CandidateLists
    /\ clients = <<>>
    /\ listener = "none"
    /\ acceptErr = "none"

LBIdle ==
    /\ lbState = "new"
    /\ lbBackends = <<>>
    /\ clients = <<>>
    /\ listener = "none"
    /\ acceptErr = "none"

\* The record of an accepted client connection: open, no backend selected,
\* no backend connection, nothing forwarded.
AcceptedConn == [state |-> "open", backend |-> Nil, backendConn |-> FALSE, forwarded |-> 0]

\* Faulty variant: a backend connection is made before the close.
HandledConnDialing(c) == [c EXCEPT !.state = "closed", !.backendConn = TRUE]

\* Faulty variant: the connection is left open.
HandledConnLeaked(c) == c

\* handleConnection's effect on the connection: the deferred conn.Close().
\* No backend is selected and nothing is forwarded.
HandledConn(c) == [c EXCEPT !.state = "closed"]

\* LoadBalancer.Start: net.Listen succeeds, the accept loop is entered.
Listen ==
    /\ lbState = "new"
    /\ lbState' = "listening"
    /\ listener' = "open"
    /\ UNCHANGED <<lbBackends, clients, acceptErr>>

\* LoadBalancer.Start: net.Listen fails, Start returns the error.
ListenFail ==
    /\ lbState = "new"
    /\ lbState' = "failed"
    /\ UNCHANGED <<lbBackends, clients, listener, acceptErr>>

\* The accept loop: Accept returns a connection, a goroutine is started for
\* it and the loop goes on.
Accept ==
    /\ lbState = "listening"
    /\ listener = "open"
    /\ Len(clients) < MaxClients
    /\ clients' = Append(clients, AcceptedConn)
    /\ UNCHANGED <<lbState, lbBackends, listener, acceptErr>>

\* The accept loop: Accept returns an error (always, once the listening
\* socket is closed), the loop continues.
AcceptError ==
    /\ lbState = "listening"
    /\ acceptErr' = IF listener = "closed" THEN "closed" ELSE "transient"
    /\ UNCHANGED <<lbState, lbBackends, clients, listener>>

\* The listening socket is closed while Start is in its loop. (Start's own
\* listener.Close() is deferred to its return; LoadBalancer has no Stop.)
CloseListener ==
    /\ lbState = "listening"
    /\ listener = "open"
    /\ listener' = "closed"
    /\ UNCHANGED <<lbState, lbBackends, clients, acceptErr>>

\* The goroutine of the i-th accepted connection runs handleConnection.
HandleConnection(i) ==
    /\ clients[i].state = "open"
    /\ clients' = [clients EXCEPT ![i] = HandledConn(clients[i])]
    /\ UNCHANGED <<lbState, lbBackends, listener, acceptErr>>

\* How many handled connections were forwarded to the backend at address a.
ForwardedTo(a) ==
    Cardinality({i \in 1..Len(clients) :
                    clients[i].backend # Nil /\ clients[i].backend[1].Address = a})

\* C6: every connection the dispatcher has handled while a backend was healthy
\* was given a selected backend, a connection to it, and had its bytes
\* forwarded; with three healthy backends the handled connections are spread
\* evenly over them.
C6_EveryConnectionForwarded ==
    (\E j \in 1..Len(lbBackends) : lbBackends[j].Healthy) =>
        /\ \A i \in 1..Len(clients) :
              clients[i].state = "closed" =>
                  /\ clients[i].backend # Nil
                  /\ clients[i].backendConn
        /\ LET handled == Cardinality({i \in 1..Len(clients) : clients[i].state = "closed"})
               h == HealthyOf(lbBackends)
           IN (handled = 2 * Len(h)) =>
                  \A j \in 1..Len(h) : ForwardedTo(h[j].Address) = 2

\* The goroutine of the i-th accepted connection, with everything it
\* leaves alone.
HandleTask(i) ==
    /\ i <= Len(clients)
    /\ HandleConnection(i)
    /\ UNCHANGED <<selVars, concVars, poolVars, closeVars, healthVars, raceVars, regVars>>

\* The accept loop taking the next connection, with everything it leaves
\* alone.
AcceptStep ==
    /\ Accept
    /\ UNCHANGED <<selVars, concVars, poolVars, closeVars, healthVars, raceVars, regVars>>

NoHealthyBackend == \A j \in 1..Len(lbBackends) : ~lbBackends[j].Healthy

\* C21: when the dispatcher's list has no healthy backend, every accepted
\* connection is closed by its handler and no connection ever has a backend
\* selected, a backend connection, or a byte forwarded.
C21_NoHealthyClosesOnly ==
    /\ [](NoHealthyBackend =>
             \A i \in 1..Len(clients) :
                /\ clients[i].backend = Nil
                /\ ~clients[i].backendConn
                /\ clients[i].forwarded = 0)
    /\ [][NoHealthyBackend =>
             \A i \in 1..Len(clients) :
                clients'[i] # clients[i] =>
                   (clients[i].state = "open" /\ clients'[i].state = "closed")]_vars

\* C21 witness: a list of three unhealthy backends, and an accepted
\* connection that has been closed.
C21_Witness ==
    /\ Len(lbBackends) = 3
    /\ NoHealthyBackend
    /\ \E i \in 1..Len(clients) : clients[i].state = "closed"

\* C22: every accepted connection is eventually closed, and while the
\* listener is open the accept loop can take the next connection whatever
\* the state of the connections accepted before.
C22_EveryConnectionClosed ==
    /\ \A i \in 1..MaxClients :
          (Len(clients) >= i) ~> (i <= Len(clients) /\ clients[i].state = "closed")
    /\ []((lbState = "listening" /\ listener = "open" /\ Len(clients) < MaxClients) =>
             ENABLED AcceptStep)

\* C22 witness: a connection accepted later has been closed while one
\* accepted before it is still open.
C22_Witness ==
    \E i, j \in 1..Len(clients) :
        /\ i < j
        /\ clients[i].state = "open"
        /\ clients[j].state = "closed"

\* C23: once Accept has failed because the listening socket is closed, the
\* accept loop has ended.
C23_ClosedListenerEndsLoop ==
    acceptErr = "closed" => lbState # "listening"

\* ---------------------------------------------------------- connection pool
PoolCallers == 1..NumPoolCallers

ConnIds == 1..MaxDials

\* The nil net.Conn.
NilConn == 0

\* A connection id not dialed yet, a connection just dialed, a closed one.
NotDialed == [state |-> "none", peer |-> "open", pending |-> 0]

Dialed == [state |-> "open", peer |-> "open", pending |-> 0]

Closed == [state |-> "closed", peer |-> "closed", pending |-> 0]

NoResult == [conn |-> NilConn, err |-> "none"]

\* NewConnectionPool(address, maxSize): an empty channel of capacity maxSize,
\* active = 0.
PoolInit ==
    /\ maxSize \in 1..MaxPoolSize
    /\ connections = <<>>
    /\ active = 0
    /\ conn = [c \in ConnIds |-> NotDialed]
    /\ dials = 0
    /\ reachable = TRUE
    /\ held = [t \in PoolCallers |-> {}]
    /\ ppc = [t \in PoolCallers |-> "idle"]
    /\ plocal = [t \in PoolCallers |-> NilConn]
    /\ result = [t \in PoolCallers |-> NoResult]
    /\ tag = [t \in PoolCallers |-> {}]

PoolIdle ==
    /\ maxSize = 0
    /\ connections = <<>>
    /\ active = 0
    /\ conn = <<>>
    /\ dials = 0
    /\ reachable = TRUE
    /\ held = <<>>
    /\ ppc = <<>>
    /\ plocal = <<>>
    /\ result = <<>>
    /\ tag = <<>>

\* Faulty variant: the received connection stays in the channel.
ChanPeek(ch) == ch

\* The channel after a receive, and after a send.
ChanRecv(ch) == Tail(ch)

ChanSend(ch, c) == Append(ch, c)

\* Faulty variant: one connection more than the capacity is accepted.
CanSendOffByOne(ch, cap) == Len(ch) <= cap

\* The send case of a select on a channel of capacity cap is ready.
CanSend(ch, cap) == Len(ch) < cap

\* Faulty variant: the end of the stream is not reported as an error.
ReadErrNoEOF(k) ==
    IF k.pending > 0 \/ k.peer = "closed" THEN "nil" ELSE "timeout"

\* conn.Read under the 1 ms deadline of isConnectionValid: "nil" when a byte
\* was read, else the error.
ReadErr(k) ==
    IF k.state = "closed" THEN "closed"
    ELSE IF k.pending > 0 THEN "nil"
    ELSE IF k.peer = "closed" THEN "EOF"
    ELSE "timeout"

\* The connection after that Read: a byte that was read is gone.
AfterRead(k) == IF ReadErr(k) = "nil" THEN [k EXCEPT !.pending = @ - 1] ELSE k

\* Faulty variant: the counter is not decremented.
KeepActive(a) == a

\* p.active-- and p.active++ (under p.mu).
DecrementActive(a) == a - 1

IncrementActive(a) == a + 1

\* Faulty variant: no limit check.
NeverExhausted(a, m) == FALSE

\* Faulty variant: the limit check lets one connection too many through.
PoolExhaustedOffByOne(a, m) == a > m

\* createConnection's limit check: p.active >= p.maxSize.
PoolExhausted(a, m) == a >= m

HeldCount == Cardinality(UNION {held[t] : t \in PoolCallers})

OthersIdle(t) == \A u \in PoolCallers \ {t} : ppc[u] = "idle"

\* The situations a Get can start in that the pool's contract speaks of:
\*   full      maxSize connections are checked out and none is idle, and
\*             this has been so since the Get started
\*   released  nothing else in progress, one connection was just returned to
\*             a pool whose maxSize connections were all out, backend up
\*   reuse     nothing else in progress, the pool's only connection ever
\*             dialed was returned, is open, and its peer has sent nothing
\*   dead      the idle connection the Get will receive has nothing to read
\*             and its peer has closed it, or it is closed
StartTags(t) ==
    {x \in {"dead"} : /\ Len(connections) > 0
                      /\ conn[Head(connections)].pending = 0
                      /\ \/ conn[Head(connections)].peer = "closed"
                         \/ conn[Head(connections)].state = "closed"}
    \cup
    {x \in {"full"} : HeldCount = maxSize /\ connections = <<>>}
    \cup {x \in {"released"} : /\ OthersIdle(t)
                               /\ Len(connections) = 1
                               /\ HeldCount = maxSize - 1
                               /\ active = maxSize
                               /\ reachable}
    \cup {x \in {"reuse"} : /\ OthersIdle(t)
                            /\ dials = 1
                            /\ connections = <<1>>
                            /\ active = 1
                            /\ conn[1] = Dialed}

\* What a step of caller t, or of the backend, leaves of the other callers'
\* tags: "released" and "reuse" speak of a Get that runs alone.
TagsAfterStepOf(t) ==
    [u \in PoolCallers |-> IF u = t THEN tag[u] ELSE tag[u] \ {"released", "reuse"}]

\* What a Put by caller t leaves of the tags: t begins a new operation, and
\* for a Get still in progress the pool is no longer full.
TagsAfterPutOf(t) ==
    [u \in PoolCallers |->
        IF u = t THEN {}
        ELSE IF ppc[u] = "idle" THEN tag[u] \ {"released", "reuse"}
        ELSE {}]

\* Get, the select: a connection is received from the channel if one is
\* there (then it is probed), else createConnection is called. The receive
\* from a closed and empty channel yields the nil net.Conn at once, and
\* isConnectionValid calls SetReadDeadline on it: a nil dereference.
GetSelect(t) ==
    /\ ppc[t] = "idle"
    /\ tag' = [TagsAfterStepOf(t) EXCEPT ![t] = StartTags(t)]
    /\ result' = [result EXCEPT ![t] = NoResult]
    /\ IF Len(connections) > 0
       THEN /\ plocal' = [plocal EXCEPT ![t] = Head(connections)]
            /\ connections' = ChanRecv(connections)
            /\ ppc' = [ppc EXCEPT ![t] = "probe"]
       ELSE IF chClosed
       THEN /\ ppc' = [ppc EXCEPT ![t] = "panic"]
            /\ UNCHANGED <<plocal, connections>>
       ELSE /\ ppc' = [ppc EXCEPT ![t] = "create"]
            /\ UNCHANGED <<plocal, connections>>
    /\ UNCHANGED <<maxSize, active, conn, dials, reachable, held>>

\* Get, isConnectionValid up to conn.Close(): the one-byte Read under the
\* deadline; without an error the connection is returned to the caller, with
\* one (EOF, timeout, closed) it is closed.
Probe(t) ==
    /\ ppc[t] = "probe"
    /\ LET c == plocal[t]
       IN IF ReadErr(conn[c]) = "nil"
          THEN /\ conn' = [conn EXCEPT ![c] = AfterRead(conn[c])]
               /\ held' = [held EXCEPT ![t] = @ \cup {c}]
               /\ result' = [result EXCEPT ![t] = [conn |-> c, err |-> "nil"]]
               /\ ppc' = [ppc EXCEPT ![t] = "idle"]
               /\ plocal' = [plocal EXCEPT ![t] = NilConn]
          ELSE /\ conn' = [conn EXCEPT ![c] = Closed]
               /\ ppc' = [ppc EXCEPT ![t] = "probeDec"]
               /\ plocal' = [plocal EXCEPT ![t] = NilConn]
               /\ UNCHANGED <<held, result>>
    /\ tag' = TagsAfterStepOf(t)
    /\ UNCHANGED <<maxSize, connections, active, dials, reachable>>

\* The locked p.active-- that follows a conn.Close(): in isConnectionValid
\* (Get then calls createConnection) and in Put's default case (Put returns).
Decrement(t) ==
    /\ ppc[t] \in {"probeDec", "putDec"}
    /\ active' = DecrementActive(active)
    /\ ppc' = [ppc EXCEPT ![t] = IF ppc[t] = "probeDec" THEN "create" ELSE "idle"]
    /\ tag' = TagsAfterStepOf(t)
    /\ UNCHANGED <<maxSize, connections, conn, dials, reachable, held, plocal, result>>

\* createConnection, all of it under p.mu: the limit check, the dial, and
\* p.active++ when the dial succeeded.
CreateConnection(t) ==
    /\ ppc[t] = "create"
    /\ IF PoolExhausted(active, maxSize)
       THEN /\ result' = [result EXCEPT ![t] = [conn |-> NilConn, err |-> "ErrPoolExhausted"]]
            /\ UNCHANGED <<active, conn, dials, held>>
       ELSE IF ~reachable
       THEN /\ result' = [result EXCEPT ![t] = [conn |-> NilConn, err |-> "dial"]]
            /\ UNCHANGED <<active, conn, dials, held>>
       ELSE /\ dials < MaxDials
            /\ dials' = dials + 1
            /\ conn' = [conn EXCEPT ![dials + 1] = Dialed]
            /\ active' = IncrementActive(active)
            /\ held' = [held EXCEPT ![t] = @ \cup {dials + 1}]
            /\ result' = [result EXCEPT ![t] = [conn |-> dials + 1, err |-> "nil"]]
    /\ ppc' = [ppc EXCEPT ![t] = "idle"]
    /\ tag' = TagsAfterStepOf(t)
    /\ UNCHANGED <<maxSize, connections, reachable, plocal>>

\* Put(c): nothing for the nil net.Conn; else the send succeeds when the
\* channel has room, and otherwise the connection is closed (the decrement
\* follows). A send on a closed channel panics.
Put(t, c) ==
    /\ ppc[t] = "idle"
    /\ IF c = NilConn
       THEN UNCHANGED <<held, tag, connections, conn, ppc>>
       ELSE /\ tag' = TagsAfterPutOf(t)
            /\ IF chClosed
               THEN /\ ppc' = [ppc EXCEPT ![t] = "panic"]
                    /\ UNCHANGED <<held, connections, conn>>
               ELSE IF CanSend(connections, maxSize)
               THEN /\ held' = [held EXCEPT ![t] = @ \ {c}]
                    /\ connections' = ChanSend(connections, c)
                    /\ UNCHANGED <<conn, ppc>>
               ELSE /\ held' = [held EXCEPT ![t] = @ \ {c}]
                    /\ conn' = [conn EXCEPT ![c] = Closed]
                    /\ ppc' = [ppc EXCEPT ![t] = "putDec"]
                    /\ UNCHANGED connections
    /\ UNCHANGED <<maxSize, active, dials, reachable, plocal, result>>

\* A caller keeping the pool's contract returns a connection it holds.
PutHeld(t, c) ==
    /\ c \in held[t]
    /\ Put(t, c)

\* Any caller's Put: the nil net.Conn, or any connection ever dialed, held
\* by the caller or not (a second Put of it, somebody else's connection).
\* The runs stop short of a negative active.
PutAny(t, c) ==
    /\ IF c = NilConn THEN TRUE ELSE conn[c].state # "none"
    /\ active > 0
    /\ Put(t, c)

\* A holder closes a connection it got from Get and never calls Put for
\* it: the pool is not told.
Abandon(t, c) ==
    /\ ppc[t] = "idle"
    /\ c \in held[t]
    /\ conn[c].state = "open"
    /\ conn' = [conn EXCEPT ![c].state = "closed"]
    /\ tag' = TagsAfterStepOf(t)
    /\ UNCHANGED <<maxSize, connections, active, dials, reachable, held, ppc, plocal, result>>

\* A holder returns a connection it holds and has not closed.
PutOpen(t, c) ==
    /\ conn[c].state = "open"
    /\ PutHeld(t, c)

\* The connections their holders closed without a Put.
Abandoned == {c \in UNION {held[t] : t \in PoolCallers} : conn[c].state = "closed"}

\* Faulty variant: the drained connection is not closed.
DrainNoClose ==
    /\ cpc = "drain"
    /\ IF Len(connections) > 0
       THEN /\ connections' = ChanRecv(connections)
            /\ UNCHANGED <<conn, cpc>>
       ELSE /\ cpc' = "idle"
            /\ UNCHANGED <<connections, conn>>
    /\ UNCHANGED <<maxSize, active, dials, reachable, held, ppc, plocal, result, tag, chClosed>>

\* Close, close(p.connections): closing a closed channel panics.
CloseChan ==
    /\ cpc = "idle"
    /\ IF chClosed
       THEN cpc' = "panic" /\ UNCHANGED chClosed
       ELSE cpc' = "drain" /\ chClosed' = TRUE
    /\ tag' = [u \in PoolCallers |-> tag[u] \ {"released", "reuse"}]
    /\ UNCHANGED <<maxSize, connections, active, conn, dials, reachable, held, ppc, plocal, result>>

\* Close, one iteration of the range over the closed channel: the next
\* buffered connection is received and closed; the loop ends when the
\* channel is empty.
Drain ==
    /\ cpc = "drain"
    /\ IF Len(connections) > 0
       THEN /\ conn' = [conn EXCEPT ![Head(connections)] = Closed]
            /\ connections' = ChanRecv(connections)
            /\ UNCHANGED cpc
       ELSE /\ cpc' = "idle"
            /\ UNCHANGED <<connections, conn>>
    /\ UNCHANGED <<maxSize, active, dials, reachable, held, ppc, plocal, result, tag, chClosed>>

\* A panic ends the process.
Crashed == cpc = "panic" \/ \E t \in PoolCallers : ppc[t] = "panic"

\* The backend writes a byte on an open connection.
BackendSend(c) ==
    /\ conn[c].state = "open"
    /\ conn[c].peer = "open"
    /\ conn[c].pending < MaxPending
    /\ conn' = [conn EXCEPT ![c].pending = @ + 1]
    /\ tag' = [u \in PoolCallers |-> tag[u] \ {"reuse"}]
    /\ UNCHANGED <<maxSize, connections, active, dials, reachable, held, ppc, plocal, result>>

\* The backend closes its end of an open connection.
BackendClose(c) ==
    /\ conn[c].state = "open"
    /\ conn[c].peer = "open"
    /\ conn' = [conn EXCEPT ![c].peer = "closed"]
    /\ tag' = [u \in PoolCallers |-> tag[u] \ {"reuse"}]
    /\ UNCHANGED <<maxSize, connections, active, dials, reachable, held, ppc, plocal, result>>

\* The backend stops or starts accepting connections.
BackendFlip ==
    /\ reachable' = ~reachable
    /\ tag' = [u \in PoolCallers |-> tag[u] \ {"released"}]
    /\ UNCHANGED <<maxSize, connections, active, conn, dials, held, ppc, plocal, result>>

C8_ExhaustedThenReleased ==
    [][\A t \in PoolCallers :
          /\ ("full" \in tag'[t] /\ ppc'[t] # ppc[t]) =>
                /\ active' = active
                /\ connections' = connections
                /\ ppc'[t] = "idle" =>
                      result'[t] = [conn |-> NilConn, err |-> "ErrPoolExhausted"]
          /\ ("released" \in tag'[t] /\ ppc[t] # "idle" /\ ppc'[t] = "idle") =>
                /\ result'[t].err = "nil"
                /\ result'[t].conn # NilConn]_vars

\* C8 witness: with maxSize = 2, one caller's Get was refused while both
\* connections were out, and after a Put the other caller's Get, started in
\* the released state, has returned a connection.
C8_Witness ==
    /\ maxSize = 2
    /\ \E t, u \in PoolCallers :
          /\ "full" \in tag[t]
          /\ ppc[t] = "idle"
          /\ result[t].err = "ErrPoolExhausted"
          /\ "released" \in tag[u]
          /\ ppc[u] = "idle"
          /\ result[u].conn # NilConn

\* C9: Get, Put of the returned connection, Get, with the backend keeping the
\* connection open and sending nothing: the second Get returns the same
\* connection and the number of dials stays 1.
C9_ReuseWithoutDial ==
    \A t \in PoolCallers :
        ("reuse" \in tag[t] /\ ppc[t] = "idle") =>
            /\ result[t] = [conn |-> 1, err |-> "nil"]
            /\ dials = 1

\* C9, what the code does there: the probe of the silent connection times
\* out, the connection is closed and a second one is dialed.
C9_Redialed ==
    \E t \in PoolCallers :
        /\ "reuse" \in tag[t]
        /\ ppc[t] = "idle"
        /\ result[t] = [conn |-> 2, err |-> "nil"]
        /\ dials = 2
        /\ conn[1] = Closed

\* C10: no connection has two holders, and no connection is idle in the pool
\* (or under a Get's probe) while a caller holds it; the channel holds no
\* connection twice.
C10_ExclusiveOwnership ==
    /\ \A t, u \in PoolCallers : t # u => held[t] \cap held[u] = {}
    /\ \A i \in 1..Len(connections) :
          /\ \A t \in PoolCallers : connections[i] \notin held[t]
          /\ \A t \in PoolCallers : plocal[t] # connections[i]
          /\ \A j \in 1..Len(connections) : i # j => connections[i] # connections[j]
    /\ \A t, u \in PoolCallers :
          plocal[t] # NilConn => (plocal[t] \notin held[u] /\ (t # u => plocal[u] # plocal[t]))

\* C10 witness: a connection that was returned to the pool has been handed
\* out again by a later Get while another caller holds a different one.
C10_Witness ==
    \E t, u \in PoolCallers :
        /\ t # u
        /\ held[t] # {}
        /\ held[u] # {}
        /\ result[u].err = "nil"
        /\ result[u].conn \in held[u]
        /\ result[u].conn < dials
        /\ result[u].conn \notin {result[t].conn}
        /\ conn[result[u].conn].state = "open"

\* The idle connection k has nothing to read and is dead: its peer closed
\* it, or the socket is closed.
DeadIdle(k) == k.pending = 0 /\ (k.peer = "closed" \/ k.state = "closed")

\* C11: an idle connection that Get received and that is dead is never
\* handed to the caller: the probe closes it, the pool then decrements
\* active by exactly one, and Get ends with a newly dialed connection, with
\* the dial error or with ErrPoolExhausted.
C11_DeadIdleNeverHandedOut ==
    [][\A t \in PoolCallers :
          /\ (ppc[t] = "probe" /\ ppc'[t] # "probe" /\ DeadIdle(conn[plocal[t]])) =>
                /\ conn'[plocal[t]].state = "closed"
                /\ plocal[t] \notin held'[t]
                /\ result'[t].conn # plocal[t]
                /\ active' = active
                /\ ppc'[t] = "probeDec"
          /\ (ppc[t] = "probeDec" /\ ppc'[t] # "probeDec") =>
                /\ active' = active - 1
                /\ ppc'[t] = "create"
          /\ (ppc[t] = "create" /\ ppc'[t] = "idle") =>
                \/ result'[t] = [conn |-> NilConn, err |-> "ErrPoolExhausted"]
                \/ result'[t] = [conn |-> NilConn, err |-> "dial"]
                \/ /\ result'[t] = [conn |-> dials + 1, err |-> "nil"]
                   /\ dials' = dials + 1
                   /\ conn[dials + 1].state = "none"
                   /\ conn'[dials + 1] = Dialed]_vars

\* C11 witness: a Get that found a dead idle connection has returned, and
\* what it returned is the connection dialed last.
C11_Witness ==
    \E t \in PoolCallers :
        /\ "dead" \in tag[t]
        /\ ppc[t] = "idle"
        /\ result[t] = [conn |-> dials, err |-> "nil"]
        /\ dials > 1
        /\ \E c \in 1..(dials - 1) : conn[c].state = "closed"

\* C12: Put of the nil connection changes nothing; Put of another connection
\* appends it to the idle cache and leaves active alone when the cache holds
\* fewer than maxSize connections, and otherwise closes it, after which
\* active is decremented by one.
C12_PutRetainsOrCloses ==
    [][/\ \A t \in PoolCallers, c \in {NilConn} \cup ConnIds :
             Put(t, c) =>
                IF c = NilConn
                THEN UNCHANGED <<connections, active, conn, held, ppc>>
                ELSE IF Len(connections) < maxSize
                THEN /\ connections' = Append(connections, c)
                     /\ active' = active
                     /\ conn' = conn
                     /\ ppc' = ppc
                ELSE /\ connections' = connections
                     /\ conn'[c].state = "closed"
                     /\ active' = active
                     /\ ppc'[t] = "putDec"
       /\ \A t \in PoolCallers :
             (ppc[t] = "putDec" /\ ppc'[t] # "putDec") =>
                /\ active' = active - 1
                /\ connections' = connections
                /\ ppc'[t] = "idle"]_vars

\* C12 witness: the idle cache is full and a Put of one more connection has
\* closed it and is about to decrement active.
C12_Witness ==
    \E t \in PoolCallers :
        /\ ppc[t] = "putDec"
        /\ Len(connections) = maxSize
        /\ active > 0

\* C13: createConnection returns ErrPoolExhausted exactly when active >=
\* maxSize, and then dials nothing; with active < maxSize and the backend
\* unreachable it returns the dial error and leaves active alone.
C13_ExhaustedOrDialError ==
    [][\A t \in PoolCallers :
          (ppc[t] = "create" /\ ppc'[t] = "idle") =>
             /\ (result'[t].err = "ErrPoolExhausted") <=> (active >= maxSize)
             /\ (active >= maxSize) => (dials' = dials /\ active' = active /\ conn' = conn)
             /\ (active < maxSize /\ ~reachable) =>
                   /\ result'[t] = [conn |-> NilConn, err |-> "dial"]
                   /\ active' = active
                   /\ dials' = dials
             /\ (result'[t].err = "dial") => (active < maxSize /\ ~reachable)]_vars

\* C13 witness: one caller's Get ended with ErrPoolExhausted and another
\* caller's Get with the dial error.
C13_Witness ==
    \E t, u \in PoolCallers :
        /\ ppc[t] = "idle"
        /\ ppc[u] = "idle"
        /\ result[t].err = "ErrPoolExhausted"
        /\ result[u].err = "dial"

\* The connections that are checked out or in the hands of a Get.
CheckedOut == UNION {held[t] : t \in PoolCallers} \cup {plocal[t] : t \in PoolCallers}

\* C14: every step of Close leaves the checked-out connections as they are;
\* each iteration of its loop closes the connection it takes from the idle
\* cache; and once Close has returned the idle cache is empty and every
\* connection that is still open is checked out.
C14_CloseDrainsIdleOnly ==
    /\ [][(cpc' # cpc \/ (cpc = "drain" /\ ppc' = ppc /\ connections' # connections)) =>
             /\ \A c \in CheckedOut \ {NilConn} : conn'[c] = conn[c]
             /\ held' = held
             /\ cpc = "drain" =>
                   IF Len(connections) > 0
                   THEN /\ conn'[Head(connections)].state = "closed"
                        /\ connections' = Tail(connections)
                   ELSE cpc' = "idle" /\ connections' = <<>>]_vars
    /\ []((chClosed /\ cpc = "idle") =>
             /\ connections = <<>>
             /\ \A c \in ConnIds : conn[c].state = "open" => c \in CheckedOut)

\* C14 witness: Close has returned after closing an idle connection (no
\* decrement of active ever happened) while a caller holds an open one.
C14_Witness ==
    /\ chClosed
    /\ cpc = "idle"
    /\ dials = 2
    /\ active = 2
    /\ \E t \in PoolCallers, c, d \in ConnIds :
          /\ c \in held[t]
          /\ conn[c].state = "open"
          /\ conn[d].state = "closed"

\* No Get or Put is in progress.
Quiescent == \A t \in PoolCallers : ppc[t] = "idle"

\* C32: whenever no Get or Put is in progress, active is the number of
\* idle connections in the channel plus the number of connections handed
\* out by Get and not yet returned by Put.
C32_ActiveIsIdlePlusHeld ==
    Quiescent => active = Len(connections) + HeldCount

\* C32 witness: nothing in progress, one connection idle and one handed
\* out, after a dead idle connection was closed by a Get's probe and
\* replaced by a new dial.
C32_Witness ==
    /\ Quiescent
    /\ Len(connections) = 1
    /\ HeldCount = 1
    /\ active = 2
    /\ dials = 3
    /\ \E c \in ConnIds : conn[c] = Closed

\* C33: a Put by a caller keeping the contract never finds the channel
\* full: the close-and-decrement branch is never entered, and the step of
\* Put appends the returned connection to the idle connections.
C33_PutNeverFindsCacheFull ==
    /\ [](\A t \in PoolCallers : ppc[t] # "putDec")
    /\ [][\A t \in PoolCallers : \A c \in ConnIds :
             (c \in held[t] /\ c \notin held'[t]) =>
                connections' = Append(connections, c)]_vars

\* C33 witness: with maxSize = 2 both connections were returned, the
\* second Put filling the channel.
C33_Witness ==
    /\ maxSize = 2
    /\ Len(connections) = 2
    /\ active = 2
    /\ HeldCount = 0
    /\ Quiescent

\* C35: a Get that hands out an idle connection after its probe leaves
\* every byte the backend sent on it to be read by the holder.
C35_ProbeKeepsBytes ==
    [][\A t \in PoolCallers :
          (ppc[t] = "probe" /\ ppc'[t] = "idle") =>
             conn'[plocal[t]].pending = conn[plocal[t]].pending]_vars

\* C36: once Close has been called no pool operation panics.
C36_NoCrashAfterClose ==
    chClosed => ~Crashed

\* maxSize connections were abandoned by their holders.
AllAbandoned == Cardinality(Abandoned) = maxSize

\* C34: active goes down only in the decrement that follows the pool's own
\* close of a connection; a holder closing a connection it holds leaves
\* active as it was; and once maxSize connections are abandoned that stays
\* so, nothing is idle, and every Get that returns reports
\* ErrPoolExhausted.
C34_AbandonedNeverReclaimed ==
    /\ [][active' < active =>
             \E t \in PoolCallers :
                ppc[t] \in {"probeDec", "putDec"} /\ ppc'[t] # ppc[t]]_vars
    /\ [][(\E c \in ConnIds : c \notin Abandoned /\ c \in Abandoned') => active' = active]_vars
    /\ [](AllAbandoned => (active = maxSize /\ connections = <<>>))
    /\ [][AllAbandoned => AllAbandoned']_vars
    /\ [][\A t \in PoolCallers :
             (AllAbandoned /\ ppc[t] # "idle" /\ ppc'[t] = "idle") =>
                result'[t] = [conn |-> NilConn, err |-> "ErrPoolExhausted"]]_vars

\* C34 witness: with maxSize = 2 both connections were abandoned, and a
\* Get made afterwards, the backend reachable, was refused.
C34_Witness ==
    /\ maxSize = 2
    /\ AllAbandoned
    /\ reachable
    /\ \E t \in PoolCallers :
          /\ "full" \in tag[t]
          /\ ppc[t] = "idle"
          /\ result[t] = [conn |-> NilConn, err |-> "ErrPoolExhausted"]

\* ----------------------------------------------------------- health checker
\* Time is counted in seconds. Server.IsReachable dials with
\* net.DialTimeout("tcp", addr, 5*time.Second), whatever Checker.timeout is.
DialTimeout == 5

Probed == 1..MaxProbed

Min(a, b) == IF a < b THEN a ELSE b

\* Everything the health checker leaves alone.
healthFrame == <<backends, snapshot, counter, calls, concVars, lbVars, poolVars, closeVars, raceVars, regCall>>

\* NewChecker(manager, interval, timeout): any pair of durations is accepted.
HealthInit ==
    /\ interval \in 1..MaxInterval
    /\ timeout \in 1..MaxTimeout
    /\ stopCh = "open"
    /\ hpc = "new"
    /\ hidx = 0
    /\ hsnap = 0
    /\ probeLeft = 0
    /\ probeOk = FALSE
    /\ tickLeft = 0
    /\ tickPending = FALSE
    /\ backendState = [i \in Probed |-> "up"]
    /\ age = [i \in Probed |-> 0]
    /\ lastProbe = [i \in Probed |-> "none"]
    /\ stopAt = "none"

\* Configuration load while the checker exists.
HealthAddServer ==
    /\ hpc # "none"
    /\ Len(servers) < MaxProbed
    /\ AddServer
    /\ UNCHANGED <<concVars, lbVars, poolVars, closeVars, healthVars, raceVars, regVars>>

\* checkAll: servers := c.manager.GetAllServers(), and the range over it
\* begins; an empty registry ends the cycle at once.
CheckAllBegin ==
    /\ hsnap' = Len(GetAllServers(servers))
    /\ IF Len(GetAllServers(servers)) = 0
       THEN hpc' = "wait" /\ hidx' = 0
       ELSE hpc' = "check" /\ hidx' = 1

\* Faulty variant: Start goes to its select without the initial checkAll.
StartCheckerWaitsForTick ==
    /\ hpc = "new"
    /\ tickLeft' = interval
    /\ hpc' = "wait"
    /\ UNCHANGED <<servers, interval, timeout, stopCh, hidx, hsnap, probeLeft, probeOk,
                   tickPending, backendState, age, lastProbe, stopAt>>
    /\ UNCHANGED <<healthFrame, logged>>

\* Start: the ticker is created and the initial checkAll begins.
StartChecker ==
    /\ hpc = "new"
    /\ tickLeft' = interval
    /\ CheckAllBegin
    /\ UNCHANGED <<servers, interval, timeout, stopCh, probeLeft, probeOk, tickPending,
                   backendState, age, lastProbe, stopAt>>
    /\ UNCHANGED <<healthFrame, logged>>

\* checkServer up to the dial of IsReachable: a backend that is up accepts
\* and one that refuses fails at once; a hung backend lets the dial run
\* into its 5 s timeout.
ProbeBegin ==
    /\ hpc = "check"
    /\ probeLeft' = IF backendState[hidx] = "hung" THEN DialTimeout ELSE 0
    /\ probeOk' = (backendState[hidx] = "up")
    /\ hpc' = "probe"
    /\ logged' = NoEvent
    /\ UNCHANGED <<servers, interval, timeout, stopCh, hidx, hsnap, tickLeft, tickPending,
                   backendState, age, lastProbe, stopAt>>
    /\ UNCHANGED healthFrame

\* checkServer after IsReachable returned: the flag is set to the outcome,
\* and checkAll goes on to the next server or ends the cycle.
ProbeEnd ==
    /\ hpc = "probe"
    /\ probeLeft = 0
    /\ servers' = [servers EXCEPT ![hidx] = CheckServerFlag(servers[hidx], probeOk)]
    /\ logged' = CheckServerEvent(servers[hidx], probeOk)
    /\ lastProbe' = [lastProbe EXCEPT ![hidx] = IF probeOk THEN "ok" ELSE "fail"]
    /\ probeOk' = FALSE
    /\ IF hidx < hsnap
       THEN hpc' = "check" /\ hidx' = hidx + 1 /\ hsnap' = hsnap
       ELSE hpc' = "wait" /\ hidx' = 0 /\ hsnap' = 0
    /\ UNCHANGED <<interval, timeout, stopCh, probeLeft, tickLeft, tickPending,
                   backendState, age, stopAt>>
    /\ UNCHANGED healthFrame

\* The ticker fires: a tick is put in ticker.C (capacity 1; a tick that
\* finds one there is dropped).
TickerFire ==
    /\ hpc \in {"check", "probe", "wait"}
    /\ tickLeft = 0
    /\ tickPending' = TRUE
    /\ tickLeft' = interval
    /\ UNCHANGED <<servers, interval, timeout, stopCh, hpc, hidx, hsnap, probeLeft, probeOk,
                   backendState, age, lastProbe, stopAt>>
    /\ UNCHANGED <<healthFrame, logged>>

\* Start's select, case <-ticker.C: the next checkAll begins.
SelectTick ==
    /\ hpc = "wait"
    /\ tickPending
    /\ tickPending' = FALSE
    /\ CheckAllBegin
    /\ UNCHANGED <<servers, interval, timeout, stopCh, probeLeft, probeOk, tickLeft,
                   backendState, age, lastProbe, stopAt>>
    /\ UNCHANGED <<healthFrame, logged>>

\* Faulty variant: the stop signal is not acted on.
SelectStopMissed ==
    /\ hpc = "wait"
    /\ stopCh = "closed"
    /\ UNCHANGED vars

\* Start's select, case <-c.stopCh: Start returns (the deferred
\* ticker.Stop runs).
SelectStop ==
    /\ hpc = "wait"
    /\ stopCh = "closed"
    /\ hpc' = "stopped"
    /\ tickLeft' = 0
    /\ UNCHANGED <<servers, interval, timeout, stopCh, hidx, hsnap, probeLeft, probeOk, tickPending,
                   backendState, age, lastProbe, stopAt>>
    /\ UNCHANGED <<healthFrame, logged>>

\* Stop, called once: close(c.stopCh).
Stop ==
    /\ hpc # "none"
    /\ stopCh = "open"
    /\ stopCh' = "closed"
    /\ stopAt' = hpc
    /\ UNCHANGED <<servers, interval, timeout, hpc, hidx, hsnap, probeLeft, probeOk, tickLeft,
                   tickPending, backendState, age, lastProbe>>
    /\ UNCHANGED <<healthFrame, logged>>

\* How long a backend's being down is followed.
AgeCap == interval + timeout + 1

\* One second passes. A goroutine that can run does so first: the select
\* with a ready case, checkServer about to dial, a dial that has returned,
\* the ticker that is due.
Advance ==
    /\ hpc # "none"
    /\ hpc # "check"
    /\ hpc = "probe" => probeLeft > 0
    /\ hpc = "wait" => (~tickPending /\ stopCh = "open")
    /\ hpc \in {"probe", "wait"} => tickLeft > 0
    /\ probeLeft' = IF hpc = "probe" THEN probeLeft - 1 ELSE probeLeft
    /\ tickLeft' = IF hpc \in {"probe", "wait"} THEN tickLeft - 1 ELSE tickLeft
    /\ age' = [i \in Probed |->
                 IF backendState[i] = "up" THEN 0 ELSE Min(age[i] + 1, AgeCap)]
    /\ UNCHANGED <<servers, interval, timeout, stopCh, hpc, hidx, hsnap, probeOk, tickPending,
                   backendState, lastProbe, stopAt>>
    /\ UNCHANGED <<healthFrame, logged>>

\* A registered backend goes down (refusing connections, or hung: accepting
\* nothing and answering nothing) or comes up.
BackendChange(i, st) ==
    /\ hpc # "none"
    /\ i <= Len(servers)
    /\ st # backendState[i]
    /\ backendState' = [backendState EXCEPT ![i] = st]
    /\ age' = [age EXCEPT ![i] = 0]
    /\ UNCHANGED <<servers, interval, timeout, stopCh, hpc, hidx, hsnap, probeLeft, probeOk,
                   tickLeft, tickPending, lastProbe, stopAt>>
    /\ UNCHANGED <<healthFrame, logged>>

HealthNext ==
    \/ HealthAddServer
    \/ StartChecker
    \/ ProbeBegin
    \/ ProbeEnd
    \/ TickerFire
    \/ SelectTick
    \/ SelectStop
    \/ Stop
    \/ Advance
    \/ \E i \in Probed, st \in {"up", "refused", "hung"} : BackendChange(i, st)

\* ---------------------------------------------------- health checker: claims
\* C15: a registered server's Healthy flag is true exactly when its latest
\* completed probe succeeded (false when none has completed), and the flag
\* changes only in the step of checkServer that ends a probe of that server.
C15_FlagIsLatestProbe ==
    /\ [](\A i \in 1..Len(servers) : servers[i].Healthy = (lastProbe[i] = "ok"))
    /\ [][\A i \in 1..Len(servers) :
             servers'[i].Healthy # servers[i].Healthy =>
                (hpc = "probe" /\ hidx = i /\ hpc' # "probe")]_vars

\* C15 witness: the first server's latest probe failed after an earlier one
\* had succeeded elsewhere in the registry, the second server's succeeded
\* and that backend has gone down since without a new probe.
C15_Witness ==
    /\ Len(servers) = 2
    /\ lastProbe[1] = "fail"
    /\ lastProbe[2] = "ok"
    /\ backendState[2] = "hung"
    /\ servers[2].Healthy

\* Start has been called and has not returned, and Stop was not called.
CheckerRunning == hpc \in {"check", "probe", "wait"} /\ stopCh = "open"

\* C16: while the checker runs, a backend that has been down for longer
\* than the check interval plus the health-check timeout is marked
\* unhealthy, so that GetHealthyServers leaves it out.
C16_MarkedWithinIntervalPlusTimeout ==
    \A i \in 1..Len(servers) :
        (CheckerRunning /\ backendState[i] # "up" /\ age[i] > interval + timeout) =>
            /\ ~servers[i].Healthy
            /\ \A j \in 1..Len(GetHealthyServers(servers)) :
                  GetHealthyServers(servers)[j] # servers[i]

\* C17: Stop can be executed whenever it has not been called yet, and once
\* it has been called Start reaches Stopped.
C17_StopEndsLoop ==
    /\ []((hpc # "none" /\ stopCh = "open") => ENABLED Stop)
    /\ (stopCh = "closed") ~> (hpc = "stopped")

\* C17 witness: Stop was called while a probe was in flight, and Start has
\* returned.
C17_Witness ==
    /\ stopAt = "probe"
    /\ hpc = "stopped"

\* C18: the health-check timeout NewChecker accepted is shorter than the
\* interval, and no probe takes longer than that timeout.
C18_ProbeBoundedByTimeout ==
    hpc # "none" =>
        /\ timeout < interval
        /\ hpc = "probe" => probeLeft <= timeout

\* A step in which a checkServer call returns.
ProbeReturns == hpc = "probe" /\ hpc' # "probe"

\* C29: a probe that succeeds while the flag is false prints "now healthy",
\* one that fails while the flag is true prints "now unhealthy", a probe
\* that leaves the flag as it was prints nothing, and nothing is printed
\* by any other step.
C29_EventExactlyOnFlagChange ==
    [][/\ ProbeReturns =>
            /\ (probeOk /\ ~servers[hidx].Healthy) <=>
                  (logged' = <<"now healthy", GetAddress(servers[hidx])>>)
            /\ (~probeOk /\ servers[hidx].Healthy) <=>
                  (logged' = <<"now unhealthy", GetAddress(servers[hidx])>>)
            /\ (servers'[hidx].Healthy = servers[hidx].Healthy) <=> (logged' = NoEvent)
       /\ ~ProbeReturns => logged' \in {logged, NoEvent}]_vars

\* C29 witness: the first backend was down at its first probe and nothing
\* was printed for it; the second was healthy and its latest probe, which
\* failed, printed "now unhealthy".
C29_Witness ==
    /\ Len(servers) = 2
    /\ lastProbe[1] = "fail"
    /\ backendState[1] = "refused"
    /\ age[1] > interval
    /\ lastProbe[2] = "fail"
    /\ logged = <<"now unhealthy", GetAddress(servers[2])>>

\* C30: once Stop has been called the select in Start begins no further
\* checkAll, also when a tick is waiting in ticker.C, and once Start has
\* returned no server's fields are written.
C30_NoCycleAfterStop ==
    [][/\ (stopCh = "closed" /\ hpc = "wait") => ~SelectTick
       /\ hpc = "stopped" => \A i \in 1..Len(servers) : servers'[i] = servers[i]]_vars

\* C31: Start can always be executed on a new checker, also after Stop, and
\* begins at once, taking no tick, a cycle over every server registered
\* then; a cycle that ends has probed each of them; and the select begins a
\* cycle only by taking a tick.
C31_StartProbesAllAtOnce ==
    /\ [](hpc = "new" => ENABLED StartChecker)
    /\ [][(hpc = "new" /\ hpc' # "new") =>
             /\ tickPending' = tickPending
             /\ hsnap' = Len(servers)
             /\ IF Len(servers) = 0 THEN hpc' = "wait" ELSE hpc' = "check" /\ hidx' = 1]_vars
    /\ [][(hpc = "probe" /\ hpc' = "wait") =>
             \A i \in 1..hsnap : lastProbe'[i] # "none"]_vars
    /\ [][(hpc = "wait" /\ hpc' = "check") => (tickPending /\ ~tickPending')]_vars

\* C31 witness: Stop was called before Start, and Start has probed both
\* registered servers with no second gone and no tick fired.
C31_Witness ==
    /\ stopAt = "new"
    /\ stopCh = "closed"
    /\ hpc = "wait"
    /\ Len(servers) = 2
    /\ lastProbe[1] = "ok"
    /\ lastProbe[2] = "fail"
    /\ tickLeft = interval
    /\ ~tickPending

\* ------------------------------------------ registry: concurrent goroutines
\* Manager has no mutex and Server.Healthy is a plain bool: the goroutine of
\* Checker.Start writes flags, any goroutine may call GetHealthyServers, and
\* AddServer assigns m.servers. Every memory access is a step of its own.
raceFrame == <<backends, snapshot, counter, calls, concVars, lbVars, poolVars, closeVars, healthVars, regVars>>

\* The registries the program can hold when the goroutines start.
RaceInit ==
    /\ servers \in {RegistryWith(fl) : fl \in UNION {FlagLists(k) : k \in 0..MaxServers}}
    /\ backends = <<>>
    /\ snapshot = <<>>
    /\ counter = 0
    /\ calls = <<>>
    /\ rdpc = "idle"
    /\ rdidx = 0
    /\ rdview = 0
    /\ rdout = <<>>
    /\ wrpc = "idle"
    /\ wridx = 0
    /\ wrval = FALSE
    /\ adpc = "idle"

\* GetHealthyServers is called: the read of m.servers for the range begins.
ReadBegin ==
    /\ rdpc = "idle"
    /\ rdpc' = "header"
    /\ rdout' = <<>>
    /\ UNCHANGED <<servers, rdidx, rdview, wrpc, wridx, wrval, adpc>>
    /\ UNCHANGED raceFrame

\* The read of m.servers completes. With an append in progress the reader
\* gets the old or the new slice.
ReadHeader ==
    /\ rdpc = "header"
    /\ \E n \in {Len(servers)} \cup {k \in {Len(servers) + 1} : adpc = "append"} :
          /\ rdview' = n
          /\ IF n = 0
             THEN rdpc' = "idle" /\ rdidx' = 0
             ELSE rdpc' = "flag" /\ rdidx' = 1
    /\ UNCHANGED <<servers, rdout, wrpc, wridx, wrval, adpc>>
    /\ UNCHANGED raceFrame

\* The read of server.Healthy for the current server completes; with a
\* write of the same flag in progress the reader gets the old or the new
\* value. (A server seen through the new slice before the append completed
\* is the one AddServer just built: Healthy false.) The loop goes on or
\* GetHealthyServers returns.
ReadFlag ==
    /\ rdpc = "flag"
    /\ IF rdidx > Len(servers)
       THEN rdout' = rdout
       ELSE \E v \in {servers[rdidx].Healthy} \cup {w \in {wrval} : wrpc = "flag" /\ wridx = rdidx} :
               rdout' = IF v THEN Append(rdout, GetAddress(servers[rdidx])) ELSE rdout
    /\ IF rdidx < rdview
       THEN rdpc' = "flag" /\ rdidx' = rdidx + 1
       ELSE rdpc' = "idle" /\ rdidx' = 0
    /\ UNCHANGED <<servers, rdview, wrpc, wridx, wrval, adpc>>
    /\ UNCHANGED raceFrame

\* checkServer reaches server.Healthy = v for server i: the write begins.
WriteBegin(i, v) ==
    /\ wrpc = "idle"
    /\ i <= Len(servers)
    /\ wrpc' = "flag"
    /\ wridx' = i
    /\ wrval' = v
    /\ UNCHANGED <<servers, rdpc, rdidx, rdview, rdout, adpc>>
    /\ UNCHANGED raceFrame

\* The write of the flag completes.
WriteEnd ==
    /\ wrpc = "flag"
    /\ servers' = [servers EXCEPT ![wridx] = CheckServerFlag(servers[wridx], wrval)]
    /\ wrpc' = "idle"
    /\ wridx' = 0
    /\ wrval' = FALSE
    /\ UNCHANGED <<backends, snapshot, counter, calls, rdpc, rdidx, rdview, rdout, adpc>>
    /\ UNCHANGED <<concVars, lbVars, poolVars, closeVars, healthVars, regVars>>

\* AddServer reaches m.servers = append(m.servers, server): the write begins.
AppendBegin ==
    /\ adpc = "idle"
    /\ Len(servers) < MaxServers
    /\ adpc' = "append"
    /\ UNCHANGED <<servers, rdpc, rdidx, rdview, rdout, wrpc, wridx, wrval>>
    /\ UNCHANGED raceFrame

\* The write of m.servers completes.
AppendEnd ==
    /\ adpc = "append"
    /\ servers' = AddServerTo(servers, "localhost", Len(servers) + 1)
    /\ adpc' = "idle"
    /\ UNCHANGED <<backends, snapshot, counter, calls, rdpc, rdidx, rdview, rdout, wrpc, wridx, wrval>>
    /\ UNCHANGED <<concVars, lbVars, poolVars, closeVars, healthVars, regVars>>

RaceNext ==
    \/ ReadBegin
    \/ ReadHeader
    \/ ReadFlag
    \/ \E i \in 1..MaxServers, v \in BOOLEAN : WriteBegin(i, v)
    \/ WriteEnd
    \/ AppendBegin
    \/ AppendEnd

\* C19: no read of a server's Healthy flag is in progress while a write of
\* the same flag is, and no read of the registry while AddServer is writing
\* it.
C19_NoUnsynchronizedAccess ==
    /\ ~(rdpc = "flag" /\ wrpc = "flag" /\ rdidx = wridx)
    /\ ~(rdpc = "header" /\ adpc = "append")

\* ------------------------------------ dispatcher and registry side by side
\* NewLoadBalancer(listenAddr, backends, algorithm) with the []Backend the
\* caller copied out of the registry: addresses and flags by value.
NewLoadBalancer ==
    /\ lbState = "none"
    /\ lbState' = "new"
    /\ lbBackends' = ToBackends(GetAllServers(servers))
    /\ UNCHANGED <<clients, listener, acceptErr>>

StaleInit ==
    /\ lbState = "none"
    /\ lbBackends = <<>>
    /\ clients = <<>>
    /\ listener = "none"
    /\ acceptErr = "none"

\* The registry's flag for the server a backend entry was copied from.
RegistryHealthy(b) ==
    \E k \in 1..Len(servers) : GetAddress(servers[k]) = b.Address /\ servers[k].Healthy

\* C20: whenever the dispatcher handles a connection, the backends eligible
\* in its list are the ones the registry holds healthy: one the health
\* monitor has marked unhealthy is not eligible, one it has marked healthy
\* again is.
C20_RoutesByRegistryHealth ==
    [][\A i \in 1..Len(clients) :
          (clients[i].state = "open" /\ clients'[i].state = "closed") =>
             \A j \in 1..Len(lbBackends) :
                lbBackends[j].Healthy <=> RegistryHealthy(lbBackends[j])]_vars

\* ------------------------------------------- parts of the program not in use
\* The pool's channel is open and nobody is in Close.
CloseIdle ==
    /\ chClosed = FALSE
    /\ cpc = "idle"

\* No health checker was constructed.
HealthIdle ==
    /\ interval = 0
    /\ timeout = 0
    /\ stopCh = "open"
    /\ hpc = "none"
    /\ hidx = 0
    /\ hsnap = 0
    /\ probeLeft = 0
    /\ probeOk = FALSE
    /\ tickLeft = 0
    /\ tickPending = FALSE
    /\ backendState = <<>>
    /\ age = <<>>
    /\ lastProbe = <<>>
    /\ stopAt = "none"

\* No goroutine is using the registry.
RaceIdle ==
    /\ rdpc = "idle"
    /\ rdidx = 0
    /\ rdview = 0
    /\ rdout = <<>>
    /\ wrpc = "idle"
    /\ wridx = 0
    /\ wrval = FALSE
    /\ adpc = "idle"

\* ------------------------------------------------- registry: its operations
\* A *Server is the position of the server in m.servers (servers are only
\* ever appended). GetHealthyServers' loop: the pointers of the servers with
\* Healthy set, appended in the order of the range over m.servers.
GetHealthyPointers(srvs) ==
    SelectSeq([i \in 1..Len(srvs) |-> i], LAMBDA i : IsHealthyServer(srvs[i]))

\* What a caller reads through a slice of n pointers it got from
\* GetAllServers: the servers as they are now.
Deref(n) == [i \in 1..n |-> servers[i]]

\* AddServer(address, port) with a port the configuration names; the same
\* backend may be named twice.
AddServerAt(port) ==
    /\ Len(servers) < MaxServers
    /\ servers' = AddServerTo(servers, "localhost", port)
    /\ UNCHANGED <<backends, snapshot, counter, calls, regCall, logged>>

\* checkServer on a registered server.
RegCheckServer ==
    /\ CheckServer
    /\ UNCHANGED regCall

\* A caller calls GetAllServers and keeps the slice: m.servers itself, that
\* is the pointers to the servers registered so far.
CallGetAllServers ==
    /\ regCall' = [op |-> "all", at |-> servers, res |-> Len(GetAllServers(servers))]
    /\ UNCHANGED <<selVars, logged>>

\* A caller calls GetHealthyServers.
CallGetHealthyServers ==
    /\ regCall' = [op |-> "healthy", at |-> servers, res |-> GetHealthyPointers(servers)]
    /\ UNCHANGED <<selVars, logged>>

\* A caller calls LeastConnectionsAlgorithm.SelectBackend on the backends
\* copied from the registry.
CallLeastConnections ==
    /\ regCall' = [op |-> "least", at |-> servers,
                   res |-> LeastConnectionsSelectBackend(ToBackends(GetAllServers(servers)))]
    /\ UNCHANGED <<selVars, logged>>

RegistryNext ==
    \/ \E port \in 1..MaxPorts : AddServerAt(port) /\ UNCHANGED <<concVars, lbVars, poolVars, closeVars, healthVars, raceVars>>
    \/ RegCheckServer /\ UNCHANGED <<concVars, lbVars, poolVars, closeVars, healthVars, raceVars>>
    \/ CallGetAllServers /\ UNCHANGED <<concVars, lbVars, poolVars, closeVars, healthVars, raceVars>>
    \/ CallGetHealthyServers /\ UNCHANGED <<concVars, lbVars, poolVars, closeVars, healthVars, raceVars>>
    \/ CallLeastConnections /\ UNCHANGED <<concVars, lbVars, poolVars, closeVars, healthVars, raceVars>>

\* C24: what a caller reads through the value GetAllServers returned stays
\* what it was at the time of the call, whatever AddServer and the health
\* checker do afterwards.
C24_GetAllServersIsSnapshot ==
    regCall.op = "all" => Deref(regCall.res) = regCall.at

\* C25: no two registered servers have the same (address, port).
C25_NoDuplicateIdentity ==
    \A i, j \in 1..Len(servers) :
        i # j => GetAddress(servers[i]) # GetAddress(servers[j])

\* C26: no step removes or reorders a server or changes the identity at a
\* position, and a step that adds one adds exactly one, at the end, with
\* Healthy false, leaving every other server and its flag as they were.
C26_AddServerAppendsOnly ==
    [][/\ Len(servers') >= Len(servers)
       /\ \A i \in 1..Len(servers) : GetAddress(servers'[i]) = GetAddress(servers[i])
       /\ Len(servers') > Len(servers) =>
             /\ Len(servers') = Len(servers) + 1
             /\ ~servers'[Len(servers')].Healthy
             /\ \A i \in 1..Len(servers) : servers'[i] = servers[i]]_vars

\* C26 witness: a third server was added, unhealthy, behind a healthy first
\* one on another port.
C26_Witness ==
    /\ Len(servers) = 3
    /\ servers[1].Healthy
    /\ servers[1].Port # servers[3].Port
    /\ ~servers[3].Healthy

\* C27: GetHealthyServers returns the servers whose flag was set at the
\* time of the call, each once and in registry order, and the call changes
\* nothing in the registry.
C27_HealthyExactlyInOrder ==
    /\ [](regCall.op = "healthy" =>
             /\ \A k \in 1..Len(regCall.res) :
                   /\ regCall.res[k] \in 1..Len(regCall.at)
                   /\ regCall.at[regCall.res[k]].Healthy
             /\ \A k, l \in 1..Len(regCall.res) : k < l => regCall.res[k] < regCall.res[l]
             /\ \A i \in 1..Len(regCall.at) :
                   regCall.at[i].Healthy => \E k \in 1..Len(regCall.res) : regCall.res[k] = i)
    /\ [][(regCall' # regCall /\ regCall'.op = "healthy") =>
             (servers' = servers /\ regCall'.at = servers)]_vars

\* C27 witness: of three registered servers the first and the third were
\* healthy at the call, and those two were returned.
C27_Witness ==
    /\ regCall.op = "healthy"
    /\ Len(regCall.at) = 3
    /\ regCall.at[1].Healthy
    /\ ~regCall.at[2].Healthy
    /\ regCall.at[3].Healthy
    /\ regCall.res = <<1, 3>>

\* C28: the least-connections algorithm returns a healthy candidate
\* whenever one exists, and none only when no candidate is healthy.
C28_LeastConnectionsSelects ==
    regCall.op = "least" =>
        /\ (regCall.res = Nil) <=> (\A i \in 1..Len(regCall.at) : ~regCall.at[i].Healthy)
        /\ regCall.res # Nil =>
              \E i \in 1..Len(regCall.at) :
                 /\ regCall.at[i].Healthy
                 /\ regCall.res[1].Address = GetAddress(regCall.at[i])

\* No call on the registry has been made.
RegIdle ==
    /\ regCall = [op |-> "none", at |-> <<>>, res |-> <<>>]
    /\ logged = NoEvent

\* --------------------------------------------------------- specifications
\* Registry, health flags and sequential round-robin selection.
Init == SelInit /\ ConcIdle /\ LBIdle /\ PoolIdle /\ CloseIdle /\ HealthIdle /\ RaceIdle /\ RegIdle

Next ==
    \/ AddServer /\ UNCHANGED <<concVars, lbVars, poolVars, closeVars, healthVars, raceVars, regVars>>
    \/ CheckServer /\ UNCHANGED <<concVars, lbVars, poolVars, closeVars, healthVars, raceVars, regCall>>
    \/ BuildBackends /\ UNCHANGED <<concVars, lbVars, poolVars, closeVars, healthVars, raceVars, regVars>>
    \/ BuildHealthyBackends /\ UNCHANGED <<concVars, lbVars, poolVars, closeVars, healthVars, raceVars, regVars>>
    \/ Select /\ UNCHANGED <<concVars, lbVars, poolVars, closeVars, healthVars, raceVars, regVars>>

Spec == Init /\ [][Next]_vars

\* Concurrent callers of one RoundRobinAlgorithm over a fixed list.
ConcSpecInit == ConcInit /\ LBIdle /\ PoolIdle /\ CloseIdle /\ HealthIdle /\ RaceIdle /\ RegIdle

ConcSpecNext ==
    \/ \E t \in Callers : Enter(t) /\ UNCHANGED <<lbVars, poolVars, closeVars, healthVars, raceVars, regVars>>
    \/ \E t \in Callers : AtomicAdd(t) /\ UNCHANGED <<lbVars, poolVars, closeVars, healthVars, raceVars, regVars>>
    \/ \E t \in Callers : Return(t) /\ UNCHANGED <<lbVars, poolVars, closeVars, healthVars, raceVars, regVars>>

ConcSpec == ConcSpecInit /\ [][ConcSpecNext]_vars

\* The dispatcher.
DispatchInit == SelInit /\ ConcIdle /\ LBInit /\ PoolIdle /\ CloseIdle /\ HealthIdle /\ RaceIdle /\ RegIdle

DispatchNext ==
    \/ Listen /\ UNCHANGED <<selVars, concVars, poolVars, closeVars, healthVars, raceVars, regVars>>
    \/ ListenFail /\ UNCHANGED <<selVars, concVars, poolVars, closeVars, healthVars, raceVars, regVars>>
    \/ Accept /\ UNCHANGED <<selVars, concVars, poolVars, closeVars, healthVars, raceVars, regVars>>
    \/ AcceptError /\ UNCHANGED <<selVars, concVars, poolVars, closeVars, healthVars, raceVars, regVars>>
    \/ CloseListener /\ UNCHANGED <<selVars, concVars, poolVars, closeVars, healthVars, raceVars, regVars>>
    \/ \E i \in 1..Len(clients) : HandleConnection(i) /\ UNCHANGED <<selVars, concVars, poolVars, closeVars, healthVars, raceVars, regVars>>

DispatchSpec == DispatchInit /\ [][DispatchNext]_vars

\* The same with every handler goroutine scheduled sooner or later.
DispatchLiveSpec ==
    /\ DispatchInit
    /\ [][DispatchNext]_vars
    /\ \A i \in 1..MaxClients : WF_vars(HandleTask(i))

\* The connection pool under concurrent callers.
PoolSpecInit == SelInit /\ ConcIdle /\ LBIdle /\ PoolInit /\ CloseIdle /\ HealthIdle /\ RaceIdle /\ RegIdle

PoolSpecNext ==
    \/ \E t \in PoolCallers : GetSelect(t) /\ UNCHANGED <<selVars, concVars, lbVars, closeVars, healthVars, raceVars, regVars>>
    \/ \E t \in PoolCallers : Probe(t) /\ UNCHANGED <<selVars, concVars, lbVars, closeVars, healthVars, raceVars, regVars>>
    \/ \E t \in PoolCallers : Decrement(t) /\ UNCHANGED <<selVars, concVars, lbVars, closeVars, healthVars, raceVars, regVars>>
    \/ \E t \in PoolCallers : CreateConnection(t) /\ UNCHANGED <<selVars, concVars, lbVars, closeVars, healthVars, raceVars, regVars>>
    \/ \E t \in PoolCallers, c \in ConnIds : PutHeld(t, c) /\ UNCHANGED <<selVars, concVars, lbVars, closeVars, healthVars, raceVars, regVars>>
    \/ \E c \in ConnIds : BackendSend(c) /\ UNCHANGED <<selVars, concVars, lbVars, closeVars, healthVars, raceVars, regVars>>
    \/ \E c \in ConnIds : BackendClose(c) /\ UNCHANGED <<selVars, concVars, lbVars, closeVars, healthVars, raceVars, regVars>>
    \/ BackendFlip /\ UNCHANGED <<selVars, concVars, lbVars, closeVars, healthVars, raceVars, regVars>>

PoolSpec == PoolSpecInit /\ [][PoolSpecNext]_vars

\* The connection pool with holders that may close a connection and keep it.
AbandonSpecInit == PoolSpecInit

AbandonSpecNext ==
    \/ \E t \in PoolCallers : GetSelect(t) /\ UNCHANGED <<selVars, concVars, lbVars, closeVars, healthVars, raceVars, regVars>>
    \/ \E t \in PoolCallers : Probe(t) /\ UNCHANGED <<selVars, concVars, lbVars, closeVars, healthVars, raceVars, regVars>>
    \/ \E t \in PoolCallers : Decrement(t) /\ UNCHANGED <<selVars, concVars, lbVars, closeVars, healthVars, raceVars, regVars>>
    \/ \E t \in PoolCallers : CreateConnection(t) /\ UNCHANGED <<selVars, concVars, lbVars, closeVars, healthVars, raceVars, regVars>>
    \/ \E t \in PoolCallers, c \in ConnIds : PutOpen(t, c) /\ UNCHANGED <<selVars, concVars, lbVars, closeVars, healthVars, raceVars, regVars>>
    \/ \E t \in PoolCallers, c \in ConnIds : Abandon(t, c) /\ UNCHANGED <<selVars, concVars, lbVars, closeVars, healthVars, raceVars, regVars>>
    \/ \E c \in ConnIds : BackendSend(c) /\ UNCHANGED <<selVars, concVars, lbVars, closeVars, healthVars, raceVars, regVars>>
    \/ \E c \in ConnIds : BackendClose(c) /\ UNCHANGED <<selVars, concVars, lbVars, closeVars, healthVars, raceVars, regVars>>
    \/ BackendFlip /\ UNCHANGED <<selVars, concVars, lbVars, closeVars, healthVars, raceVars, regVars>>

AbandonSpec == AbandonSpecInit /\ [][AbandonSpecNext]_vars

\* The connection pool with callers that may Put anything.
PutSpecInit == PoolSpecInit

PutSpecNext ==
    \/ \E t \in PoolCallers : GetSelect(t) /\ UNCHANGED <<selVars, concVars, lbVars, closeVars, healthVars, raceVars, regVars>>
    \/ \E t \in PoolCallers : Probe(t) /\ UNCHANGED <<selVars, concVars, lbVars, closeVars, healthVars, raceVars, regVars>>
    \/ \E t \in PoolCallers : Decrement(t) /\ UNCHANGED <<selVars, concVars, lbVars, closeVars, healthVars, raceVars, regVars>>
    \/ \E t \in PoolCallers : CreateConnection(t) /\ UNCHANGED <<selVars, concVars, lbVars, closeVars, healthVars, raceVars, regVars>>
    \/ \E t \in PoolCallers, c \in {NilConn} \cup ConnIds : PutAny(t, c) /\ UNCHANGED <<selVars, concVars, lbVars, closeVars, healthVars, raceVars, regVars>>

PutSpec == PutSpecInit /\ [][PutSpecNext]_vars

\* The connection pool with callers keeping the contract, and Close.
CloseSpecInit == PoolSpecInit

CloseSpecNext ==
    \/ \E t \in PoolCallers : ~Crashed /\ GetSelect(t) /\ UNCHANGED <<selVars, concVars, lbVars, closeVars, healthVars, raceVars, regVars>>
    \/ \E t \in PoolCallers : ~Crashed /\ Probe(t) /\ UNCHANGED <<selVars, concVars, lbVars, closeVars, healthVars, raceVars, regVars>>
    \/ \E t \in PoolCallers : ~Crashed /\ Decrement(t) /\ UNCHANGED <<selVars, concVars, lbVars, closeVars, healthVars, raceVars, regVars>>
    \/ \E t \in PoolCallers : ~Crashed /\ CreateConnection(t) /\ UNCHANGED <<selVars, concVars, lbVars, closeVars, healthVars, raceVars, regVars>>
    \/ \E t \in PoolCallers, c \in ConnIds : ~Crashed /\ PutHeld(t, c) /\ UNCHANGED <<selVars, concVars, lbVars, closeVars, healthVars, raceVars, regVars>>
    \/ \E c \in ConnIds : ~Crashed /\ BackendClose(c) /\ UNCHANGED <<selVars, concVars, lbVars, closeVars, healthVars, raceVars, regVars>>
    \/ ~Crashed /\ CloseChan /\ UNCHANGED <<selVars, concVars, lbVars, healthVars, raceVars, regVars>>
    \/ ~Crashed /\ Drain /\ UNCHANGED <<selVars, concVars, lbVars, healthVars, raceVars, regVars>>

CloseSpec == CloseSpecInit /\ [][CloseSpecNext]_vars

\* The registry's operations, called in any order with any configured port.
RegistrySpecInit == SelInit /\ ConcIdle /\ LBIdle /\ PoolIdle /\ CloseIdle /\ HealthIdle /\ RaceIdle /\ RegIdle

RegistrySpec == RegistrySpecInit /\ [][RegistryNext]_vars

\* The registry used by several goroutines at once.
RaceSpecInit == RaceInit /\ ConcIdle /\ LBIdle /\ PoolIdle /\ CloseIdle /\ HealthIdle /\ RegIdle

RaceSpec == RaceSpecInit /\ [][RaceNext]_vars

\* The dispatcher built from the registry while health checks go on.
StaleSpecInit == SelInit /\ ConcIdle /\ StaleInit /\ PoolIdle /\ CloseIdle /\ HealthIdle /\ RaceIdle /\ RegIdle

StaleSpecNext ==
    \/ AddServer /\ UNCHANGED <<concVars, lbVars, poolVars, closeVars, healthVars, raceVars, regVars>>
    \/ CheckServer /\ UNCHANGED <<concVars, lbVars, poolVars, closeVars, healthVars, raceVars, regCall>>
    \/ NewLoadBalancer /\ UNCHANGED <<selVars, concVars, poolVars, closeVars, healthVars, raceVars, regVars>>
    \/ Listen /\ UNCHANGED <<selVars, concVars, poolVars, closeVars, healthVars, raceVars, regVars>>
    \/ Accept /\ UNCHANGED <<selVars, concVars, poolVars, closeVars, healthVars, raceVars, regVars>>
    \/ \E i \in 1..Len(clients) : HandleConnection(i) /\ UNCHANGED <<selVars, concVars, poolVars, closeVars, healthVars, raceVars, regVars>>

StaleSpec == StaleSpecInit /\ [][StaleSpecNext]_vars

\* The health checker in real time, with backends going down and up.
HealthSpecInit == SelInit /\ ConcIdle /\ LBIdle /\ PoolIdle /\ CloseIdle /\ HealthInit /\ RaceIdle /\ RegIdle

HealthSpec == HealthSpecInit /\ [][HealthNext]_vars

\* The same with the scheduling the Go runtime gives: a goroutine that can
\* run does, time passes, and a select with several ready cases picks each
\* of them sooner or later.
HealthLiveSpec ==
    /\ HealthSpecInit
    /\ [][HealthNext]_vars
    /\ WF_vars(StartChecker)
    /\ WF_vars(ProbeBegin)
    /\ WF_vars(ProbeEnd)
    /\ WF_vars(TickerFire)
    /\ WF_vars(Advance)
    /\ SF_vars(SelectStop)

=============================================================================
